---- MODULE Spec2Model ----
(***************************************************************************)
(* Model of pkg/controllers/user/alert/configsyncer/configsyncer.go:       *)
(* ConfigSyncer.sync() and the helpers it calls.                           *)
(*                                                                         *)
(* Strings are sequences of tokens: "c1:g1" is <<"c1", ":", "g1">>, the    *)
(* empty string is <<>>, concatenation is \o.  A Go nil pointer / nil      *)
(* slice is the empty sequence <<>>, a set pointer is a one-element        *)
(* sequence.                                                               *)
(***************************************************************************)
EXTENDS Integers, Sequences, FiniteSets, TLC

\* ------------------------------------------------------------------ bounds
\* Number of sync() invocations that may be started in one behaviour.
MaxRuns == 2
\* Number of backing-store changes the environment may make (SpecConc).
MaxChanges == 2
\* Longest list of recipients addRecipients is called with (SpecRecipients).
MaxRecipients == 2

\* ------------------------------------------------------- program constants
defaultGroupInterval == 10
eventGroupInterval == 1
defaultGroupWait == 10
defaultRepeatInterval == 10

\* deployer.NotificationTmpl, the fixed template blob.
NotificationTmpl == <<"notification-template">>

\* d.clusterName
clusterName == <<"c1">>

\* ------------------------------------------------------------ string helpers
\* Byte order of the tokens used (':' < '_' < lower-case letters).
TokOrder == <<":", "_", "c1", "c2", "default", "g1", "g2", "g3", "g4", "g5", "n1",
              "n2",
              "nx", "ov", "p1", "p2", "q1", "q2", "q3", "r1", "r2", "r3">>

TokRank(t) == CHOOSE i \in 1..Len(TokOrder) : TokOrder[i] = t

\* Lexicographic a < b on strings, as sort.Strings compares them.
StrLess(a, b) ==
    \E i \in 1..(Len(a) + 1) :
        /\ i <= Len(b)
        /\ \A j \in 1..(i - 1) : a[j] = b[j]
        /\ \/ i = Len(a) + 1
           \/ TokRank(a[i]) < TokRank(b[i])

\* The keys of a map in descending order.
RECURSIVE SortStringsDescending(_)
SortStringsDescending(S) ==
    IF S = {} THEN <<>>
    ELSE LET m == CHOOSE x \in S : \A y \in S \ {x} : StrLess(y, x)
         IN  <<m>> \o SortStringsDescending(S \ {m})

\* sort.Strings over the keys of a map: the keys in ascending order.
RECURSIVE SortStrings(_)
SortStrings(S) ==
    IF S = {} THEN <<>>
    ELSE LET m == CHOOSE x \in S : \A y \in S \ {x} : StrLess(x, y)
         IN  <<m>> \o SortStrings(S \ {m})

\* ref.Parse: split at the first ':' into (namespace, name); no ':' gives ("", ref).
Parse(ref) ==
    IF \E i \in 1..Len(ref) : ref[i] = ":"
    THEN LET i == CHOOSE k \in 1..Len(ref) :
                     ref[k] = ":" /\ \A j \in 1..(k - 1) : ref[j] # ":"
         IN  <<SubSeq(ref, 1, i - 1), SubSeq(ref, i + 1, Len(ref))>>
    ELSE <<<<>>, ref>>

\* common.GetRuleID(groupID, ruleName)
GetRuleID(groupID, name) == groupID \o <<"_">> \o name

\* controller.ObjectInCluster(cluster, alert) for a project alert rule.
ObjectInCluster(cluster, alert) == Parse(alert.projectName)[1] = cluster

\* Map lookup with Go's zero value for a missing key.
MapGet(m, k) == IF k \in DOMAIN m THEN m[k] ELSE <<>>

\* ------------------------------------------------------ recipient resolver
\* getNotifier: the first listed notifier whose "<clusterName>:<name>" is id, or nil.
getNotifier(id, notifiers) ==
    LET hits == {i \in 1..Len(notifiers) : clusterName \o <<":">> \o notifiers[i].name = id}
    IN  IF hits = {} THEN <<>>
        ELSE <<notifiers[CHOOSE i \in hits : \A j \in hits : i <= j]>>

\* &alertconfig.Receiver{Name: groupID}
NewReceiver(groupID) ==
    [name |-> groupID, pagerdutyConfigs |-> <<>>, webhookConfigs |-> <<>>,
     slackConfigs |-> <<>>, emailConfigs |-> <<>>]

\* The notifier's default target whatever the recipient says.
OverrideIgnored(r, default) == default

\* The recipient override replaces the notifier's default target when non-empty.
Override(r, default) == IF r.recipient # <<>> THEN r.recipient ELSE default

\* One iteration of the loop of addRecipients: [receiver, exist].
AddRecipient(notifiers, receiver, r) ==
    LET found == getNotifier(r.notifierName, notifiers)
        skip  == [receiver |-> receiver, exist |-> FALSE]
    IN  IF r.notifierName = <<>> THEN skip
        ELSE IF found = <<>> THEN skip
        ELSE LET n == found[1] IN
             IF n.pagerduty # <<>> THEN
                 [receiver |-> [receiver EXCEPT !.pagerdutyConfigs = Append(@,
                      [serviceKey  |-> Override(r, n.pagerduty[1].serviceKey),
                       description |-> <<"rancher.title">>])],
                  exist |-> TRUE]
             ELSE IF n.webhook # <<>> THEN
                 [receiver |-> [receiver EXCEPT !.webhookConfigs = Append(@,
                      [url |-> Override(r, n.webhook[1].url)])],
                  exist |-> TRUE]
             ELSE IF n.slack # <<>> THEN
                 [receiver |-> [receiver EXCEPT !.slackConfigs = Append(@,
                      [apiURL  |-> n.slack[1].url,
                       channel |-> Override(r, n.slack[1].defaultRecipient),
                       text    |-> <<"slack.text">>,
                       title   |-> <<"rancher.title">>])],
                  exist |-> TRUE]
             ELSE IF n.smtp # <<>> THEN
                 [receiver |-> [receiver EXCEPT !.emailConfigs = Append(@,
                      [smarthost |-> n.smtp[1].host,
                       to        |-> Override(r, n.smtp[1].defaultRecipient),
                       from      |-> n.smtp[1].sender,
                       html      |-> <<"email.text">>])],
                  exist |-> TRUE]
             ELSE skip

RECURSIVE AddRecipientsFrom(_, _, _, _, _)
AddRecipientsFrom(notifiers, receiver, recipients, i, receiverExist) ==
    IF i > Len(recipients) THEN [receiver |-> receiver, exist |-> receiverExist]
    ELSE LET step == AddRecipient(notifiers, receiver, recipients[i])
         IN  AddRecipientsFrom(notifiers, step.receiver, recipients, i + 1,
                               receiverExist \/ step.exist)

\* addRecipients with "return true" for "return receiverExist".
AddRecipientsAlwaysExist(notifiers, receiver, recipients) ==
    [AddRecipientsFrom(notifiers, receiver, recipients, 1, FALSE) EXCEPT !.exist = TRUE]

\* addRecipients: the receiver with the resolved channel configs appended, and
\* whether at least one recipient resolved.
AddRecipients(notifiers, receiver, recipients) ==
    AddRecipientsFrom(notifiers, receiver, recipients, 1, FALSE)

\* ------------------------------------------------------------ route builder
\* model.Duration(time.Duration(n) * time.Second), in seconds.
Seconds(n) == n

\* newRoute with the receiver taken from "rule_id" when there is no "group_id".
newRouteNamesChildren(match, groupWait, groupInterval, repeatInterval) ==
    [receiver       |-> IF "group_id" \in DOMAIN match THEN match["group_id"]
                        ELSE MapGet(match, "rule_id"),
     match          |-> match,
     groupWait      |-> <<Seconds(groupWait)>>,
     repeatInterval |-> <<Seconds(repeatInterval)>>,
     groupInterval  |-> IF groupInterval # defaultGroupInterval
                        THEN <<Seconds(groupInterval)>> ELSE <<>>,
     routes         |-> <<>>]

\* newRoute(match, groupWait, groupInterval, repeatInterval)
newRoute(match, groupWait, groupInterval, repeatInterval) ==
    [receiver       |-> MapGet(match, "group_id"),
     match          |-> match,
     groupWait      |-> <<Seconds(groupWait)>>,
     repeatInterval |-> <<Seconds(repeatInterval)>>,
     groupInterval  |-> IF groupInterval # defaultGroupInterval
                        THEN <<Seconds(groupInterval)>> ELSE <<>>,
     routes         |-> <<>>]

\* appendRoute(route, subRoute)
appendRoute(route, subRoute) == [route EXCEPT !.routes = Append(@, subRoute)]

\* addRule appending the rule's node twice.
addRuleTwice(ruleID, route, comm) ==
    LET r2 == newRoute("rule_id" :> ruleID, comm.groupWaitSeconds, comm.groupIntervalSeconds,
                       comm.repeatIntervalSeconds)
    IN  appendRoute(appendRoute(route, r2), r2)

\* addRule(ruleID, route, comm)
addRule(ruleID, route, comm) ==
    appendRoute(route,
        newRoute("rule_id" :> ruleID, comm.groupWaitSeconds, comm.groupIntervalSeconds,
                 comm.repeatIntervalSeconds))

\* The group-level node both assemblers build (lines 293 and 334).
GroupRoute(groupID) ==
    newRoute("group_id" :> groupID, defaultGroupWait, defaultRepeatInterval,
             defaultGroupInterval)

\* The event node of a cluster rule (line 342).
EventRoute(ruleID) ==
    newRoute(("alert_type" :> <<"event">>) @@ ("rule_id" :> ruleID), defaultGroupWait,
             defaultRepeatInterval, eventGroupInterval)

\* --------------------------------------------------------- group listers
\* A lookup whose not-found result is not told apart from other errors.
ListerGetNotFoundFails(groups, ns, name, failed) ==
    LET hits == {g \in groups : g.ns = ns /\ g.name = name}
    IN  IF failed \/ hits = {} THEN [group |-> <<>>, err |-> "error"]
        ELSE [group |-> <<CHOOSE g \in hits : TRUE>>, err |-> ""]

\* clusterAlertGroupLister.Get / projectAlertGroupLister.Get: the group of that
\* namespace and name, a not-found error, or (failed) another error.
ListerGet(groups, ns, name, failed) ==
    LET hits == {g \in groups : g.ns = ns /\ g.name = name}
    IN  IF failed THEN [group |-> <<>>, err |-> "error"]
        ELSE IF hits = {} THEN [group |-> <<>>, err |-> "notfound"]
        ELSE [group |-> <<CHOOSE g \in hits : TRUE>>, err |-> ""]

\* ------------------------------------------------- config assembler, cluster
\* The loop over the rules of one cluster group (lines 335-350).
RECURSIVE ClusterRuleRoutes(_, _, _, _)
ClusterRuleRoutes(r1, groupID, groupRules, i) ==
    IF i > Len(groupRules) THEN r1
    ELSE LET alert  == groupRules[i]
             ruleID == GetRuleID(groupID, alert.name)
             withEvent == IF "event" \in alert.kinds
                          THEN appendRoute(r1, EventRoute(ruleID)) ELSE r1
             withRule  == IF alert.kinds \cap {"metric", "systemService", "node"} # {}
                          THEN addRule(ruleID, withEvent, alert) ELSE withEvent
         IN  IF alert.state = "inactive"
             THEN ClusterRuleRoutes(r1, groupID, groupRules, i + 1)
             ELSE ClusterRuleRoutes(withRule, groupID, groupRules, i + 1)

\* The loop of addClusterAlert2Config from key i on: [config, err].
RECURSIVE ClusterConfigFrom(_, _, _, _, _, _, _)
ClusterConfigFrom(config, alerts, keys, notifiers, groups, bad, i) ==
    IF i > Len(keys) THEN [config |-> config, err |-> FALSE]
    ELSE LET groupID   == keys[i]
             groupName == Parse(groupID)[2]
             got       == ListerGet(groups, clusterName, groupName, groupID \in bad)
             res       == AddRecipients(notifiers, NewReceiver(groupID),
                                        got.group[1].recipients)
             r1        == ClusterRuleRoutes(GroupRoute(groupID), groupID, alerts[groupID], 1)
         IN  IF got.err = "error" THEN [config |-> config, err |-> TRUE]
             ELSE IF got.group = <<>>
             THEN ClusterConfigFrom(config, alerts, keys, notifiers, groups, bad, i + 1)
             ELSE IF res.exist
             THEN ClusterConfigFrom(
                      [config EXCEPT !.receivers = Append(@, res.receiver),
                                     !.route = appendRoute(@, r1)],
                      alerts, keys, notifiers, groups, bad, i + 1)
             ELSE ClusterConfigFrom(config, alerts, keys, notifiers, groups, bad, i + 1)

\* addClusterAlert2Config returning nil where line 323 returns the lookup's error.
addClusterAlert2ConfigNoError(config, alerts, keys, notifiers, groups, bad) ==
    [ClusterConfigFrom(config, alerts, keys, notifiers, groups, bad, 1) EXCEPT !.err = FALSE]

\* addClusterAlert2Config(config, alerts, keys, notifiers); groups is the content of
\* the cluster group lister, bad the group ids whose lookup fails.
addClusterAlert2Config(config, alerts, keys, notifiers, groups, bad) ==
    ClusterConfigFrom(config, alerts, keys, notifiers, groups, bad, 1)

\* ------------------------------------------------- config assembler, project
\* The loop over the rules of one project group (lines 295-305).
RECURSIVE ProjectRuleRoutes(_, _, _, _)
ProjectRuleRoutes(r1, groupID, rules, i) ==
    IF i > Len(rules) THEN r1
    ELSE LET alert == rules[i]
         IN  IF alert.state = "inactive"
             THEN ProjectRuleRoutes(r1, groupID, rules, i + 1)
             ELSE IF alert.kinds \cap {"pod", "workload", "metric"} # {}
             THEN ProjectRuleRoutes(addRule(GetRuleID(groupID, alert.name), r1, alert),
                                    groupID, rules, i + 1)
             ELSE ProjectRuleRoutes(r1, groupID, rules, i + 1)

\* The inner loop of addProjectAlert2Config over the sorted group ids of one project.
RECURSIVE ProjectGroupsFrom(_, _, _, _, _, _, _, _)
ProjectGroupsFrom(config, projectName, groups, groupIDs, notifiers, lister, bad, j) ==
    IF j > Len(groupIDs) THEN [config |-> config, err |-> FALSE]
    ELSE LET groupID   == groupIDs[j]
             groupName == Parse(groupID)[2]
             got       == ListerGet(lister, projectName, groupName, groupID \in bad)
             res       == AddRecipients(notifiers, NewReceiver(groupID),
                                        got.group[1].recipients)
             r1        == ProjectRuleRoutes(GroupRoute(groupID), groupID, groups[groupID], 1)
         IN  IF got.err = "error" THEN [config |-> config, err |-> TRUE]
             ELSE IF got.group = <<>>
             THEN ProjectGroupsFrom(config, projectName, groups, groupIDs, notifiers,
                                    lister, bad, j + 1)
             ELSE IF res.exist
             THEN ProjectGroupsFrom(
                      [config EXCEPT !.receivers = Append(@, res.receiver),
                                     !.route = appendRoute(@, r1)],
                      projectName, groups, groupIDs, notifiers, lister, bad, j + 1)
             ELSE ProjectGroupsFrom(config, projectName, groups, groupIDs, notifiers,
                                    lister, bad, j + 1)

\* The outer loop of addProjectAlert2Config from project key i on.
RECURSIVE ProjectConfigFrom(_, _, _, _, _, _, _)
ProjectConfigFrom(config, projectGroups, keys, notifiers, lister, bad, i) ==
    IF i > Len(keys) THEN [config |-> config, err |-> FALSE]
    ELSE LET projectName == keys[i]
             groups      == projectGroups[projectName]
             groupIDs    == SortStrings(DOMAIN groups)
             done        == ProjectGroupsFrom(config, projectName, groups, groupIDs,
                                              notifiers, lister, bad, 1)
         IN  IF done.err THEN done
             ELSE ProjectConfigFrom(done.config, projectGroups, keys, notifiers, lister,
                                    bad, i + 1)

\* addProjectAlert2Config(config, projectGroups, keys, notifiers)
addProjectAlert2Config(config, projectGroups, keys, notifiers, lister, bad) ==
    ProjectConfigFrom(config, projectGroups, keys, notifiers, lister, bad, 1)

\* ------------------------------------------------------ metric rule publisher
\* The rule-CR store interface of manager.PromOperatorCRDManager.
GetDefaultPrometheusRule(namespace, name) ==
    [namespace |-> namespace, name |-> name, groups |-> <<>>]

GetRuleGroup(groupID) == [name |-> groupID, rules |-> <<>>]

Metric2Rule(groupID, ruleID, cluster) ==
    [alert |-> ruleID, groupID |-> groupID, clusterName |-> cluster]

AddRule(ruleGroup, rule) == [ruleGroup EXCEPT !.rules = Append(@, rule)]

AddRuleGroup(promRule, ruleGroup) == [promRule EXCEPT !.groups = Append(@, ruleGroup)]

\* monitorutil.ClusterMonitoringInfo / ProjectMonitoringInfo: the namespace.
ClusterMonitoringNamespace == <<"cattle-prometheus">>
ProjectMonitoringNamespace(projectName) == <<"cattle-prometheus-">> \o projectName

\* The key of a rule-CR in the store.
ContainerKey(promRule) == <<promRule.namespace, promRule.name>>

\* The inner loop over the rules of one group (lines 218-224 and 249-255).
RECURSIVE RuleGroupFrom(_, _, _, _)
RuleGroupFrom(ruleGroup, groupID, alertRules, i) ==
    IF i > Len(alertRules) THEN ruleGroup
    ELSE LET alertRule == alertRules[i]
             ruleID    == GetRuleID(alertRule.groupName, alertRule.name)
         IN  IF "metric" \in alertRule.kinds
             THEN RuleGroupFrom(AddRule(ruleGroup, Metric2Rule(groupID, ruleID, clusterName)),
                                groupID, alertRules, i + 1)
             ELSE RuleGroupFrom(ruleGroup, groupID, alertRules, i + 1)

\* The loop over the sorted group ids: [enabled, promRule].
RECURSIVE OperatorGroupsFrom(_, _, _, _, _)
OperatorGroupsFrom(promRule, groupRules, keys, i, enabled) ==
    IF i > Len(keys) THEN [enabled |-> enabled, promRule |-> promRule]
    ELSE LET groupID   == keys[i]
             ruleGroup == RuleGroupFrom(GetRuleGroup(groupID), groupID, groupRules[groupID], 1)
         IN  OperatorGroupsFrom(AddRuleGroup(promRule, ruleGroup), groupRules, keys,
                                i + 1, TRUE)

\* addClusterAlert2Operator up to its last line: whether SyncPrometheusRule is
\* called, and the container it is called with.
ClusterOperatorRule(groupRules, keys) ==
    OperatorGroupsFrom(GetDefaultPrometheusRule(ClusterMonitoringNamespace, clusterName),
                       groupRules, keys, 1, FALSE)

\* One iteration of the loop of addProjectAlert2Operator, for project key projectID.
ProjectOperatorRule(projectGroups, projectID) ==
    LET groupRules  == projectGroups[projectID]
        projectName == Parse(projectID)[2]
    IN  OperatorGroupsFrom(
            GetDefaultPrometheusRule(ProjectMonitoringNamespace(projectName), projectName),
            groupRules, SortStrings(DOMAIN groupRules), 1, FALSE)

\* ------------------------------------------------------ partition of the rules
\* Lines 109-120 without the test of line 112: every listed cluster rule.
ClusterAlertsMapAll(clusterAlertRules) ==
    [k \in {clusterAlertRules[i].groupName : i \in 1..Len(clusterAlertRules)} |->
        SelectSeq(clusterAlertRules, LAMBDA a : a.groupName = k)]

\* Lines 109-120: the listed cluster rules that are not inactive, by group name,
\* in listing order.
ClusterAlertsMap(clusterAlertRules) ==
    LET live == SelectSeq(clusterAlertRules, LAMBDA a : a.state # "inactive")
    IN  [k \in {live[i].groupName : i \in 1..Len(live)} |->
            SelectSeq(live, LAMBDA a : a.groupName = k)]

\* Lines 122-138: the listed project rules of this cluster that are not inactive,
\* by project name and group name, in listing order.
ProjectAlertsMap(projectAlertRules) ==
    LET live == SelectSeq(projectAlertRules,
                          LAMBDA a : ObjectInCluster(clusterName, a) /\ a.state # "inactive")
        proj(a) == Parse(a.projectName)[2]
    IN  [p \in {proj(live[i]) : i \in 1..Len(live)} |->
            LET mine == SelectSeq(live, LAMBDA a : proj(a) = p)
            IN  [k \in {mine[i].groupName : i \in 1..Len(mine)} |->
                    SelectSeq(mine, LAMBDA a : a.groupName = k)]]

\* ------------------------------------------------------------ serialization
\* manager.GetAlertManagerDefaultConfig() with Global.PagerdutyURL set (lines 148-149).
DefaultConfig ==
    [global    |-> [pagerdutyURL |-> <<"https://events.pagerduty.com">>],
     receivers |-> <<[NewReceiver(<<"default">>) EXCEPT
                          !.slackConfigs = <<[channel |-> <<"#alert">>]>>]>>,
     route     |-> [receiver |-> <<"default">>, match |-> <<>>,
                    groupWait |-> <<Seconds(60)>>, repeatInterval |-> <<Seconds(3600)>>,
                    groupInterval |-> <<Seconds(10)>>, routes |-> <<>>],
     templates |-> <<"notification.tmpl">>]

\* A yaml field with omitempty: absent when the value is empty.
Field(k, v) == IF v = <<>> THEN <<>> ELSE <<<<k, v>>>>

\* model.Duration as yaml, "10s".
MarshalDuration(d) == IF d = <<>> THEN <<>> ELSE <<d[1], "s">>

\* A map[string]string as yaml: its entries in key order.
LabelOrder == <<"alert_type", "group_id", "rule_id">>
MarshalMatch(match) ==
    LET keys == SelectSeq(LabelOrder, LAMBDA k : k \in DOMAIN match)
    IN  [i \in 1..Len(keys) |-> <<keys[i], match[keys[i]]>>]

RECURSIVE MarshalRoute(_)
MarshalRoute(r) ==
    Field("receiver", r.receiver)
    \o Field("match", MarshalMatch(r.match))
    \o Field("routes", [i \in 1..Len(r.routes) |-> MarshalRoute(r.routes[i])])
    \o Field("group_wait", MarshalDuration(r.groupWait))
    \o Field("group_interval", MarshalDuration(r.groupInterval))
    \o Field("repeat_interval", MarshalDuration(r.repeatInterval))

MarshalReceiver(rc) ==
    Field("name", rc.name)
    \o Field("email_configs", rc.emailConfigs)
    \o Field("pagerduty_configs", rc.pagerdutyConfigs)
    \o Field("slack_configs", rc.slackConfigs)
    \o Field("webhook_configs", rc.webhookConfigs)

\* yaml.Marshal(config)
Marshal(config) ==
    Field("global", config.global)
    \o Field("route", MarshalRoute(config.route))
    \o Field("receivers", [i \in 1..Len(config.receivers) |->
                               MarshalReceiver(config.receivers[i])])
    \o Field("templates", config.templates)

\* ------------------------------------------------------------------ objects
\* The declarative objects the backing store may hold.
Notifier(name, pagerduty, webhook, slack, smtp) ==
    [name |-> name, pagerduty |-> pagerduty, webhook |-> webhook, slack |-> slack,
     smtp |-> smtp]

NSlack == Notifier(<<"n1">>, <<>>, <<>>,
                   <<[url |-> <<"slack-url">>, defaultRecipient |-> <<"#n1">>]>>, <<>>)
NPager == Notifier(<<"n2">>, <<[serviceKey |-> <<"key2">>]>>, <<>>, <<>>,
                   <<[host |-> <<"smtp:25">>, defaultRecipient |-> <<"to2">>,
                      sender |-> <<"from2">>]>>)
NNoChannel == Notifier(<<"n1">>, <<>>, <<>>, <<>>, <<>>)

Recipient(notifierName, recipient) ==
    [notifierName |-> notifierName, recipient |-> recipient]

Group(ns, name, recipients) == [ns |-> ns, name |-> name, recipients |-> recipients]

ClusterRule(name, group, kinds, gw, gi, ri, state) ==
    [name |-> name, groupName |-> group, kinds |-> kinds, groupWaitSeconds |-> gw,
     groupIntervalSeconds |-> gi, repeatIntervalSeconds |-> ri, state |-> state]

ProjectRule(name, project, group, kinds, gw, gi, ri, state) ==
    [name |-> name, projectName |-> project, groupName |-> group, kinds |-> kinds,
     groupWaitSeconds |-> gw, groupIntervalSeconds |-> gi, repeatIntervalSeconds |-> ri,
     state |-> state]

G1 == <<"c1", ":", "g1">>
G2 == <<"c1", ":", "g2">>
G3 == <<"p1", ":", "g3">>
G4 == <<"p2", ":", "g4">>

RuleStates == {"active", "inactive"}

\* The cluster rules: a metric rule without timing overrides and an event rule in
\* g1, a node rule with overrides in g2.
ClusterRules(st) ==
    {ClusterRule(<<"r1">>, G1, {"metric"}, 0, 0, 0, st[1]),
     ClusterRule(<<"r2">>, G1, {"event"}, 0, 0, 0, st[2]),
     ClusterRule(<<"r3">>, G2, {"node"}, 30, 20, 40, st[3])}

\* The project rules: a metric rule in p1, a pod rule in p2, and a rule of a
\* project of another cluster.
ProjectRules(st) ==
    {ProjectRule(<<"q1">>, <<"c1", ":", "p1">>, G3, {"metric"}, 30, 10, 40, st[4]),
     ProjectRule(<<"q2">>, <<"c1", ":", "p2">>, G4, {"pod"}, 0, 0, 0, st[5]),
     ProjectRule(<<"q1">>, <<"c2", ":", "p1">>, G3, {"workload"}, 0, 0, 0, "active")}

\* Notifier and group contents the store may start with.
Profiles == {"resolving", "gated", "missing"}

ProfileNotifiers(p) ==
    IF p = "gated" THEN {NNoChannel, NPager} ELSE {NSlack, NPager}

ProfileClusterGroups(p) ==
    {Group(<<"c1">>, <<"g1">>, <<Recipient(<<"c1", ":", "n1">>, <<>>),
                                 Recipient(<<>>, <<"ov">>)>>)}
    \cup (IF p = "missing" THEN {}
          ELSE {Group(<<"c1">>, <<"g2">>,
                      <<Recipient(<<"c1", ":", "nx">>, <<>>)>>
                      \o (IF p = "gated" THEN <<>>
                          ELSE <<Recipient(<<"c1", ":", "n2">>, <<"ov">>)>>))})

ProfileProjectGroups(p) ==
    (IF p = "missing" THEN {}
     ELSE {Group(<<"p1">>, <<"g3">>, <<Recipient(<<"c1", ":", "n1">>, <<"ov">>)>>)})
    \cup {Group(<<"p2">>, <<"g4">>, <<Recipient(<<"c1", ":", "n2">>, <<>>)>>)}

Store(p, st) ==
    [notifiers     |-> ProfileNotifiers(p),
     clusterRules  |-> ClusterRules(st),
     projectRules  |-> ProjectRules(st),
     clusterGroups |-> ProfileClusterGroups(p),
     projectGroups |-> ProfileProjectGroups(p)]

\* A lister's List: the objects of the set in any order.
Orders(S) ==
    {f \in [1..Cardinality(S) -> S] : \A i, j \in 1..Cardinality(S) : f[i] = f[j] => i = j}

\* -------------------------------------------------------------------- state
VARIABLES
    store,       \* the backing store: notifiers, rules and groups
    isDeploy,    \* alertManager.IsDeploy
    endpointOK,  \* whether GetAlertManagerEndpoint resolves
    secret,      \* the Alertmanager secret's Data
    promStore,   \* the rule-CR store: container key -> published PrometheusRule
    pending,     \* handler invocations queued by the controller framework
    started,     \* sync() invocations started so far
    changes,     \* backing-store changes made so far
    pc,          \* each worker's position in sync()
    loc,         \* each worker's local variables in sync()
    prev         \* summary of the last invocation that returned, if it succeeded

vars == <<store, isDeploy, endpointOK, secret, promStore, pending, started, changes,
          pc, loc, prev>>

\* The goroutines that run handlers; the handlers of different controllers
\* (lines 64-82) run concurrently.
Workers == {"w1", "w2"}

\* The local variables of sync() before its first statement; the fields from err
\* on record what the invocation did, failed the call of a collaborator that
\* returned an error other than not-found ("" when none did).
Blank ==
    [notifiers |-> <<>>, cAlertsMap |-> <<>>, cAlertsKey |-> <<>>, pAlertsMap |-> <<>>,
     pAlertsKey |-> <<>>, pi |-> 1, config |-> <<>>, data |-> <<>>,
     configSecret |-> <<>>,
     err |-> "", failed |-> "", lists |-> 0, published |-> <<>>, gets |-> 0, updates |-> 0,
     wrote |-> FALSE, secret0 |-> <<>>, promStore0 |-> <<>>]

\* The secret as the deployer leaves it: a config document that no sync() wrote, or
\* the default document, an older template, and a key sync() does not own.
InitialSecrets ==
    {[yaml |-> y, tmpl |-> <<"old-template">>, other |-> <<"other">>,
      resourceVersion |-> 1] :
        y \in {<<"initial">>, Marshal(DefaultConfig)}}

Return(w, l, e) ==
    /\ pc' = [pc EXCEPT ![w] = "done"]
    /\ loc' = [loc EXCEPT ![w] = [l EXCEPT !.err = e]]

Goto(w, l, to) ==
    /\ pc' = [pc EXCEPT ![w] = to]
    /\ loc' = [loc EXCEPT ![w] = l]

\* Lines 87-93 without the check of GetAlertManagerEndpoint's error.
EntryIgnoresEndpoint(deployed, resolved) ==
    IF ~deployed THEN "return nil" ELSE "continue"

\* Lines 87-93 with the two checks in the other order.
EntryEndpointFirst(deployed, resolved) ==
    IF ~resolved THEN "return err"
    ELSE IF ~deployed THEN "return nil"
    ELSE "continue"

\* Lines 87-93: what sync() does first: return nil when the stack is not deployed,
\* return the error of GetAlertManagerEndpoint, or go on to the listers.
Entry(deployed, resolved) ==
    IF ~deployed THEN "return nil"
    ELSE IF ~resolved THEN "return err"
    ELSE "continue"

\* Lines 86-93: a handler calls sync(); the deployment and endpoint checks.
SyncStart(w) ==
    /\ pc[w] = "idle"
    /\ pending > 0
    /\ started < MaxRuns
    /\ pending' = pending - 1
    /\ started' = started + 1
    /\ LET l == [Blank EXCEPT !.secret0 = secret, !.promStore0 = promStore]
           e == Entry(isDeploy, endpointOK)
       IN  IF e = "return nil" THEN Return(w, l, "")
           ELSE IF e = "return err" THEN Return(w, l, "endpoint")
           ELSE Goto(w, l, "listNotifiers")
    /\ UNCHANGED <<store, isDeploy, endpointOK, secret, promStore, changes, prev>>

\* Lines 94-97
ListNotifiers(w) ==
    /\ pc[w] = "listNotifiers"
    /\ \E ok \in BOOLEAN, notifiers \in Orders(store.notifiers) :
          LET l == [loc[w] EXCEPT !.lists = @ + 1]
          IN  IF ~ok THEN Return(w, [l EXCEPT !.failed = "List"], "List notifiers")
              ELSE Goto(w, [l EXCEPT !.notifiers = notifiers], "listClusterRules")
    /\ UNCHANGED <<store, isDeploy, endpointOK, secret, promStore, pending, started,
                   changes, prev>>

\* Lines 99-102, with the partition of lines 109-120, which reads nothing else.
ListClusterRules(w) ==
    /\ pc[w] = "listClusterRules"
    /\ \E ok \in BOOLEAN, clusterAlertRules \in Orders(store.clusterRules) :
          LET l == [loc[w] EXCEPT !.lists = @ + 1]
              cAlertsMap == ClusterAlertsMap(clusterAlertRules)
          IN  IF ~ok THEN Return(w, [l EXCEPT !.failed = "List"], "List cluster alert rules")
              ELSE Goto(w, [l EXCEPT !.cAlertsMap = cAlertsMap,
                                     !.cAlertsKey = SortStrings(DOMAIN cAlertsMap)],
                        "listProjectRules")
    /\ UNCHANGED <<store, isDeploy, endpointOK, secret, promStore, pending, started,
                   changes, prev>>

\* Lines 104-107, with the partition of lines 122-138.
ListProjectRules(w) ==
    /\ pc[w] = "listProjectRules"
    /\ \E ok \in BOOLEAN, projectAlertRules \in Orders(store.projectRules) :
          LET l == [loc[w] EXCEPT !.lists = @ + 1]
              pAlertsMap == ProjectAlertsMap(projectAlertRules)
          IN  IF ~ok THEN Return(w, [l EXCEPT !.failed = "List"], "List project alert rules")
              ELSE Goto(w, [l EXCEPT !.pAlertsMap = pAlertsMap,
                                     !.pAlertsKey = SortStrings(DOMAIN pAlertsMap)],
                        "clusterOperator")
    /\ UNCHANGED <<store, isDeploy, endpointOK, secret, promStore, pending, started,
                   changes, prev>>

\* operatorCRDManager.SyncPrometheusRule(promRule): create or update the rule-CR.
SyncPrometheusRule(crs, promRule) == (ContainerKey(promRule) :> promRule) @@ crs

\* Line 148 straight after addClusterAlert2Operator, without lines 144-146.
AfterOperatorNoProjects(l) == "clusterConfig"

\* Where sync() goes after a rule-CR publish: the next project, or line 148.
AfterOperator(l) ==
    IF l.pi <= Len(l.pAlertsKey) THEN "projectOperator" ELSE "clusterConfig"

\* Lines 140-142: addClusterAlert2Operator.
ClusterOperator(w) ==
    /\ pc[w] = "clusterOperator"
    /\ LET built == ClusterOperatorRule(loc[w].cAlertsMap, loc[w].cAlertsKey)
       IN  IF ~built.enabled
           THEN /\ Goto(w, loc[w], AfterOperator(loc[w]))
                /\ UNCHANGED promStore
           ELSE \E ok \in BOOLEAN :
                   IF ~ok THEN /\ Return(w, [loc[w] EXCEPT !.failed = "SyncPrometheusRule"],
                                         "SyncPrometheusRule")
                               /\ UNCHANGED promStore
                   ELSE /\ promStore' = SyncPrometheusRule(promStore, built.promRule)
                        /\ Goto(w, [loc[w] EXCEPT !.published = Append(@, built.promRule)],
                                AfterOperator(loc[w]))
    /\ UNCHANGED <<store, isDeploy, endpointOK, secret, pending, started, changes, prev>>

\* Lines 144-146: one iteration of the loop of addProjectAlert2Operator.
ProjectOperator(w) ==
    /\ pc[w] = "projectOperator"
    /\ LET built == ProjectOperatorRule(loc[w].pAlertsMap, loc[w].pAlertsKey[loc[w].pi])
           l     == [loc[w] EXCEPT !.pi = @ + 1]
       IN  IF ~built.enabled
           THEN /\ Goto(w, l, AfterOperator(l))
                /\ UNCHANGED promStore
           ELSE \E ok \in BOOLEAN :
                   IF ~ok THEN /\ Return(w, [loc[w] EXCEPT !.failed = "SyncPrometheusRule"],
                                         "SyncPrometheusRule")
                               /\ UNCHANGED promStore
                   ELSE /\ promStore' = SyncPrometheusRule(promStore, built.promRule)
                        /\ Goto(w, [l EXCEPT !.published = Append(@, built.promRule)],
                                AfterOperator(l))
    /\ UNCHANGED <<store, isDeploy, endpointOK, secret, pending, started, changes, prev>>

\* The group ids a lookup may fail for: none, or one of those looked up.
BadChoices(ids) == {{}} \cup {{k} : k \in ids}

\* Lines 148-153: the default config and addClusterAlert2Config.
ClusterConfig(w) ==
    /\ pc[w] = "clusterConfig"
    /\ \E bad \in BadChoices({loc[w].cAlertsKey[i] : i \in 1..Len(loc[w].cAlertsKey)}) :
          LET res == addClusterAlert2Config(DefaultConfig, loc[w].cAlertsMap,
                                            loc[w].cAlertsKey, loc[w].notifiers,
                                            store.clusterGroups, bad)
              l   == [loc[w] EXCEPT !.failed = IF bad = {} THEN "" ELSE "Get group"]
          IN  IF res.err THEN Return(w, l, "get cluster alert group")
              ELSE Goto(w, [l EXCEPT !.config = res.config], "projectConfig")
    /\ UNCHANGED <<store, isDeploy, endpointOK, secret, promStore, pending, started,
                   changes, prev>>

\* Lines 155-162: addProjectAlert2Config and yaml.Marshal. Marshal has no error
\* outcome on a Config, which holds only structs, strings, slices and string maps.
ProjectConfig(w) ==
    /\ pc[w] = "projectConfig"
    /\ \E bad \in BadChoices(UNION {DOMAIN loc[w].pAlertsMap[p] : p \in DOMAIN loc[w].pAlertsMap}) :
          LET res == addProjectAlert2Config(loc[w].config, loc[w].pAlertsMap,
                                            loc[w].pAlertsKey, loc[w].notifiers,
                                            store.projectGroups, bad)
              l   == [loc[w] EXCEPT !.failed = IF bad = {} THEN "" ELSE "Get group"]
          IN  IF res.err THEN Return(w, l, "get project alert group")
              ELSE Goto(w, [l EXCEPT !.config = res.config,
                                     !.data = Marshal(res.config)], "getSecret")
    /\ UNCHANGED <<store, isDeploy, endpointOK, secret, promStore, pending, started,
                   changes, prev>>

\* Lines 164-170: secretClient.Get.
GetSecret(w) ==
    /\ pc[w] = "getSecret"
    /\ \E ok \in BOOLEAN :
          LET l == [loc[w] EXCEPT !.gets = @ + 1]
          IN  IF ~ok THEN Return(w, l, "Get secrets")
              ELSE Goto(w, [l EXCEPT !.configSecret = secret], "compare")
    /\ UNCHANGED <<store, isDeploy, endpointOK, secret, promStore, pending, started,
                   changes, prev>>

\* Lines 173-175 without line 175.
NewConfigSecretNoTmpl(configSecret, data) == [configSecret EXCEPT !.yaml = data]

\* Lines 173-175: the copy of the secret that is sent to Update.
NewConfigSecret(configSecret, data) ==
    [configSecret EXCEPT !.yaml = data, !.tmpl = NotificationTmpl]

\* Line 177: whether secretClient.Update(newConfigSecret) succeeds: the call may
\* fail, and the API server rejects an object whose resourceVersion is not the
\* stored one.
UpdateSucceeds(current, newConfigSecret, ok) ==
    ok /\ newConfigSecret.resourceVersion = current.resourceVersion

\* Line 177 with an Update that stores the secret even when it reports an error.
SecretAfterFailedUpdateStored(current, newConfigSecret, ok) ==
    [newConfigSecret EXCEPT !.resourceVersion = current.resourceVersion + 1]

\* Line 177: the secret after secretClient.Update(newConfigSecret) returned.
SecretAfterUpdate(current, newConfigSecret, ok) ==
    IF UpdateSucceeds(current, newConfigSecret, ok)
    THEN [newConfigSecret EXCEPT !.resourceVersion = @ + 1]
    ELSE current

\* Line 172 without the comparison: Update on every run.
NeedsUpdateAlways(configSecret, data) == TRUE

\* Line 172: whether sync() calls Update.
NeedsUpdate(configSecret, data) == configSecret.yaml # data

\* Lines 172-186: the comparison and secretClient.Update.
UpdateSecret(w) ==
    /\ pc[w] = "compare"
    /\ IF NeedsUpdate(loc[w].configSecret, loc[w].data)
       THEN \E ok \in BOOLEAN :
               LET l == [loc[w] EXCEPT !.updates = @ + 1]
                   new == NewConfigSecret(loc[w].configSecret, loc[w].data)
               IN  /\ secret' = SecretAfterUpdate(secret, new, ok)
                   /\ IF ~UpdateSucceeds(secret, new, ok)
                      THEN Return(w, l, "Update secrets")
                      ELSE Return(w, [l EXCEPT !.wrote = TRUE], "")
       ELSE /\ Return(w, loc[w], "")
            /\ UNCHANGED secret
    /\ UNCHANGED <<store, isDeploy, endpointOK, promStore, pending, started, changes, prev>>

\* What an invocation leaves for the comparison with the next one.
Summary(l) ==
    [notifiers |-> l.notifiers, cAlertsMap |-> l.cAlertsMap, pAlertsMap |-> l.pAlertsMap,
     data |-> l.data, published |-> l.published, updates |-> l.updates,
     differed |-> l.configSecret.yaml # l.data]

\* Lines 64-82: sync() returns to its handler; the controller framework queues
\* the key again when the handler returns an error.
SyncReturn(w) ==
    /\ pc[w] = "done"
    /\ pc' = [pc EXCEPT ![w] = "idle"]
    /\ loc' = [loc EXCEPT ![w] = Blank]
    /\ pending' = IF loc[w].err # "" THEN pending + 1 ELSE pending
    /\ prev' = IF loc[w].err = "" /\ loc[w].data # <<>> THEN <<Summary(loc[w])>> ELSE <<>>
    /\ UNCHANGED <<store, isDeploy, endpointOK, secret, promStore, started, changes>>

\* A watch event: the state of a cluster rule changes, and the cluster rule
\* controller queues ClusterRuleSync.
ClusterRuleChange ==
    /\ changes < MaxChanges
    /\ \E r \in store.clusterRules :
          store' = [store EXCEPT !.clusterRules = (@ \ {r}) \cup
                        {[r EXCEPT !.state = IF @ = "active" THEN "inactive" ELSE "active"]}]
    /\ changes' = changes + 1
    /\ pending' = pending + 1
    /\ UNCHANGED <<isDeploy, endpointOK, secret, promStore, started, pc, loc, prev>>

\* A watch event: the state of a project rule changes, and the project rule
\* controller queues ProjectRuleSync.
ProjectRuleChange ==
    /\ changes < MaxChanges
    /\ \E r \in store.projectRules :
          store' = [store EXCEPT !.projectRules = (@ \ {r}) \cup
                        {[r EXCEPT !.state = IF @ = "active" THEN "inactive" ELSE "active"]}]
    /\ changes' = changes + 1
    /\ pending' = pending + 1
    /\ UNCHANGED <<isDeploy, endpointOK, secret, promStore, started, pc, loc, prev>>

Step(w) ==
    \/ SyncStart(w)
    \/ ListNotifiers(w)
    \/ ListClusterRules(w)
    \/ ListProjectRules(w)
    \/ ClusterOperator(w)
    \/ ProjectOperator(w)
    \/ ClusterConfig(w)
    \/ ProjectConfig(w)
    \/ GetSecret(w)
    \/ UpdateSecret(w)
    \/ SyncReturn(w)

\* One handler at a time over an unchanging backing store: every combination of
\* rule states, each profile of notifiers and groups, MaxRuns queued invocations.
Init ==
    /\ \E p \in Profiles, st \in [1..5 -> RuleStates] : store = Store(p, st)
    /\ isDeploy \in BOOLEAN
    /\ endpointOK \in BOOLEAN
    /\ secret \in InitialSecrets
    /\ promStore = <<>>
    /\ pending = MaxRuns
    /\ started = 0
    /\ changes = 0
    /\ pc = [w \in Workers |-> "idle"]
    /\ loc = [w \in Workers |-> Blank]
    /\ prev = <<>>

Next == Step("w1")

Spec == Init /\ [][Next]_vars

\* The backing store the concurrent handlers start from: one notifier, two cluster
\* groups with one rule each, one project group with one rule.
ConcStore ==
    [notifiers     |-> {NSlack},
     clusterRules  |-> {ClusterRule(<<"r1">>, G1, {"metric"}, 0, 0, 0, "active"),
                        ClusterRule(<<"r3">>, G2, {"node"}, 30, 20, 40, "inactive")},
     projectRules  |-> {ProjectRule(<<"q1">>, <<"c1", ":", "p1">>, G3, {"metric"},
                                    30, 10, 40, "active")},
     clusterGroups |-> {Group(<<"c1">>, <<"g1">>, <<Recipient(<<"c1", ":", "n1">>, <<>>)>>),
                        Group(<<"c1">>, <<"g2">>, <<Recipient(<<"c1", ":", "n1">>, <<"ov">>)>>)},
     projectGroups |-> {Group(<<"p1">>, <<"g3">>, <<Recipient(<<"c1", ":", "n1">>, <<>>)>>)}]

\* Concurrent handlers over a changing backing store.
InitConc ==
    /\ store = ConcStore
    /\ isDeploy = TRUE
    /\ endpointOK = TRUE
    /\ secret = [yaml |-> Marshal(DefaultConfig), tmpl |-> <<"old-template">>,
                 other |-> <<"other">>, resourceVersion |-> 1]
    /\ promStore = <<>>
    /\ pending = 0
    /\ started = 0
    /\ changes = 0
    /\ pc = [w \in Workers |-> "idle"]
    /\ loc = [w \in Workers |-> Blank]
    /\ prev = <<>>

NextConc == ClusterRuleChange \/ \E w \in Workers : Step(w)

SpecConc == InitConc /\ [][NextConc]_vars

\* One handler at a time over a changing backing store, with the invocation the
\* controllers queue when they start.
InitChange ==
    /\ store = ConcStore
    /\ isDeploy = TRUE
    /\ endpointOK = TRUE
    /\ secret = [yaml |-> Marshal(DefaultConfig), tmpl |-> <<"old-template">>,
                 other |-> <<"other">>, resourceVersion |-> 1]
    /\ promStore = <<>>
    /\ pending = 1
    /\ started = 0
    /\ changes = 0
    /\ pc = [w \in Workers |-> "idle"]
    /\ loc = [w \in Workers |-> Blank]
    /\ prev = <<>>

NextChange == ClusterRuleChange \/ ProjectRuleChange \/ Step("w1")

SpecChange == InitChange /\ [][NextChange]_vars

\* The payload kinds a rule of each scope can carry: the non-nil field among
\* EventRule, MetricRule, NodeRule, SystemServiceRule (cluster) and PodRule,
\* WorkloadRule, MetricRule (project).
ClusterKinds == {"event", "metric", "node", "systemService"}
ProjectKinds == {"pod", "workload", "metric"}

\* The payloads of the rules r1 and q1: each kind of each scope, and no payload.
ShapeKinds ==
    {<<{"event"}, {"pod"}>>, <<{"metric"}, {"workload"}>>, <<{"node"}, {"metric"}>>,
     <<{"systemService"}, {}>>, <<{}, {"metric"}>>}

G5 == <<"p1", ":", "g5">>

\* A backing store whose rules r1 (cluster group g1) and q1 (project p1, group g3)
\* carry each payload kind in turn, with a second rule in g1 and a second group
\* g5 in project p1.
ShapeStore(p, kinds, st) ==
    [notifiers     |-> ProfileNotifiers(p),
     clusterRules  |-> {ClusterRule(<<"r1">>, G1, kinds[1], 0, 0, 0, st[1]),
                        ClusterRule(<<"r2">>, G1, {"event"}, 0, 0, 0, st[2]),
                        ClusterRule(<<"r3">>, G2, {"node"}, 30, 20, 40, "active")},
     projectRules  |-> {ProjectRule(<<"q1">>, <<"c1", ":", "p1">>, G3, kinds[2], 30, 10, 40,
                                    st[3]),
                        ProjectRule(<<"q3">>, <<"c1", ":", "p1">>, G5, {"workload"},
                                    0, 0, 0, "active"),
                        ProjectRule(<<"q2">>, <<"c1", ":", "p2">>, G4, {"pod"},
                                    0, 0, 0, "active")},
     clusterGroups |-> ProfileClusterGroups(p),
     projectGroups |-> ProfileProjectGroups(p)
                       \cup {Group(<<"p1">>, <<"g5">>, <<Recipient(<<"c1", ":", "n2">>, <<>>)>>)}]

\* One invocation of sync() over each such store.
InitShape ==
    /\ \E p \in Profiles, kinds \in ShapeKinds, st \in [1..3 -> RuleStates] :
          store = ShapeStore(p, kinds, st)
    /\ isDeploy = TRUE
    /\ endpointOK = TRUE
    /\ secret = [yaml |-> <<"initial">>, tmpl |-> <<"old-template">>,
                 other |-> <<"other">>, resourceVersion |-> 1]
    /\ promStore = <<>>
    /\ pending = 1
    /\ started = 0
    /\ changes = 0
    /\ pc = [w \in Workers |-> "idle"]
    /\ loc = [w \in Workers |-> Blank]
    /\ prev = <<>>

SpecShape == InitShape /\ [][Next]_vars

\* Notifiers with a webhook and a slack config, and with an smtp config alone.
NWebhook == Notifier(<<"n3">>, <<>>, <<[url |-> <<"hook3">>]>>,
                     <<[url |-> <<"slack3">>, defaultRecipient |-> <<"#n3">>]>>, <<>>)
NSmtp == Notifier(<<"n4">>, <<>>, <<>>, <<>>,
                  <<[host |-> <<"smtp:25">>, defaultRecipient |-> <<"to4">>,
                     sender |-> <<"from4">>]>>)

\* The notifier lists and recipient lists addRecipients is called with: every
\* list of at most MaxRecipients recipients whose reference is empty, names a
\* notifier of each kind, an unknown notifier or a notifier of another cluster,
\* with and without an override.
NotifierLists == {<<NSlack, NPager, NWebhook, NSmtp>>, <<NSmtp, NNoChannel, NPager>>, <<>>}

RecipientRefs ==
    {<<>>, <<"c2", ":", "n1">>} \cup {<<"c1", ":", n>> : n \in {"n1", "n2", "n3", "n4", "nx"}}

RecipientLists ==
    UNION {[1..k -> {Recipient(ref, ov) : ref \in RecipientRefs, ov \in {<<>>, <<"ov">>}}] :
              k \in 0..MaxRecipients}

\* The arguments of one call of addRecipients, and its results once it returned.
InitRecipients ==
    /\ \E ns \in NotifierLists, rs \in RecipientLists :
          loc = [w \in Workers |->
                    [notifiers |-> ns, recipients |-> rs, receiver |-> NewReceiver(G1),
                     exist |-> FALSE]]
    /\ pc = [w \in Workers |-> "addRecipients"]
    /\ store = ConcStore
    /\ isDeploy = TRUE
    /\ endpointOK = TRUE
    /\ secret = [yaml |-> <<"initial">>, tmpl |-> <<"old-template">>,
                 other |-> <<"other">>, resourceVersion |-> 1]
    /\ promStore = <<>>
    /\ pending = 0
    /\ started = 0
    /\ changes = 0
    /\ prev = <<>>

\* Lines 330 and 289: exist := d.addRecipients(notifiers, receiver, recipients).
CallAddRecipients(w) ==
    /\ pc[w] = "addRecipients"
    /\ LET res == AddRecipients(loc[w].notifiers, loc[w].receiver, loc[w].recipients)
       IN  loc' = [loc EXCEPT ![w].receiver = res.receiver, ![w].exist = res.exist]
    /\ pc' = [pc EXCEPT ![w] = "returned"]
    /\ UNCHANGED <<store, isDeploy, endpointOK, secret, promStore, pending, started,
                   changes, prev>>

NextRecipients == CallAddRecipients("w1")

SpecRecipients == InitRecipients /\ [][NextRecipients]_vars

\* ------------------------------------------------------------------ claims
\* An invocation that computed and serialized its document.
Assembled(w) == loc[w].data # <<>>

\* An invocation that ran to the end of sync() and returned nil.
Ran(w) == pc[w] = "done" /\ loc[w].err = "" /\ Assembled(w)

\* The invocation before this one returned nil, and this one listed the same
\* notifiers and rules in the same order.
SameListing(w) ==
    /\ prev # <<>>
    /\ prev[1].notifiers = loc[w].notifiers
    /\ prev[1].cAlertsMap = loc[w].cAlertsMap
    /\ prev[1].pAlertsMap = loc[w].pAlertsMap

\* C1: two successive successful runs of sync() over an unchanged backing store
\* whose listers return the same objects in the same order, the first starting
\* from a stored 'alertmanager.yaml' that differs from the computed document,
\* call Update exactly once in total: once in the first run, never in the second.
C1_IdempotentPublish ==
    \A w \in Workers :
        (Ran(w) /\ SameListing(w) /\ prev[1].differed) =>
            (prev[1].updates = 1 /\ loc[w].updates = 0)

C1_Witness ==
    /\ Ran("w1") /\ SameListing("w1") /\ prev[1].differed
    /\ loc["w1"].updates = 0
    /\ Len(loc["w1"].config.receivers) > 2

\* C2: over a fixed set of groups, rules and notifiers, two runs of sync() compute
\* the same document and the same rule-group artifacts, whatever order the listers
\* return their sets in.
C2_Determinism ==
    \A w \in Workers :
        (Ran(w) /\ prev # <<>>) =>
            (loc[w].data = prev[1].data /\ loc[w].published = prev[1].published)

\* Whether a notifier has a channel config.
HasChannel(n) == n.pagerduty # <<>> \/ n.webhook # <<>> \/ n.slack # <<>> \/ n.smtp # <<>>

\* Whether a recipient resolves to a notifier of the store that has a channel.
RecipientResolves(r) ==
    /\ r.notifierName # <<>>
    /\ \E n \in store.notifiers :
          HasChannel(n) /\ r.notifierName = clusterName \o <<":">> \o n.name

\* Whether the group with this id exists among groups and has a resolving recipient.
GroupResolves(groups, gid) ==
    \E g \in groups :
        /\ g.ns \o <<":">> \o g.name = gid
        /\ \E i \in DOMAIN g.recipients : RecipientResolves(g.recipients[i])

\* The project rules of this cluster.
OwnProjectRules == {r \in store.projectRules : r.projectName[1] = clusterName[1]}

\* The group ids rules refer to that have no resolving recipient, per scope.
GatedClusterGroups ==
    {r.groupName : r \in store.clusterRules} \ {gid \in {r.groupName : r \in store.clusterRules} :
        GroupResolves(store.clusterGroups, gid)}
GatedProjectGroups ==
    {r.groupName : r \in OwnProjectRules} \ {gid \in {r.groupName : r \in OwnProjectRules} :
        GroupResolves(store.projectGroups, gid)}

\* The nodes of a document: the nodes under the root and their children.
TopNodes(config) == {config.route.routes[i] : i \in DOMAIN config.route.routes}
ChildNodes(node) == {node.routes[i] : i \in DOMAIN node.routes}
Nodes(config) == TopNodes(config) \cup UNION {ChildNodes(n) : n \in TopNodes(config)}

\* Whether a node is for the group gid or one of its rules.
NodeOfGroup(node, gid) ==
    \/ node.receiver = gid
    \/ MapGet(node.match, "group_id") = gid
    \/ \E r \in store.clusterRules \cup store.projectRules :
          r.groupName = gid /\ MapGet(node.match, "rule_id") = gid \o <<"_">> \o r.name

\* Whether the invocation of w published, for the scope named scope, an artifact
\* that is now in the rule-CR store and holds an entry for rule r under its group.
PublishedEntry(w, scope, r) ==
    \E i \in DOMAIN loc[w].published :
        LET a == loc[w].published[i] IN
        /\ a.name = scope
        /\ ContainerKey(a) \in DOMAIN promStore /\ promStore[ContainerKey(a)] = a
        /\ \E j \in DOMAIN a.groups :
              /\ a.groups[j].name = r.groupName
              /\ \E k \in DOMAIN a.groups[j].rules :
                    a.groups[j].rules[k].alert = r.groupName \o <<"_">> \o r.name

\* C3: a group none of whose recipients resolves to a notifier with a channel has
\* no Receiver and no route node (for itself or its rules) in the computed
\* document, and each of its active metric rules still has a rule entry in the
\* rule-group artifact this sync() published for its scope.
C3_RecipientGating ==
    \A w \in Workers : Assembled(w) =>
        /\ \A gid \in GatedClusterGroups \cup GatedProjectGroups :
              /\ \A i \in DOMAIN loc[w].config.receivers :
                    loc[w].config.receivers[i].name # gid
              /\ \A n \in Nodes(loc[w].config) : ~NodeOfGroup(n, gid)
        /\ \A r \in store.clusterRules :
              (r.groupName \in GatedClusterGroups /\ r.state = "active"
                   /\ "metric" \in r.kinds) => PublishedEntry(w, clusterName, r)
        /\ \A r \in OwnProjectRules :
              (r.groupName \in GatedProjectGroups /\ r.state = "active"
                   /\ "metric" \in r.kinds)
                  => PublishedEntry(w, <<r.projectName[3]>>, r)

C3_Witness ==
    /\ Assembled("w1")
    /\ G1 \in GatedClusterGroups /\ G3 \in GatedProjectGroups
    /\ \E r \in store.clusterRules :
          /\ r.groupName = G1 /\ r.state = "active" /\ "metric" \in r.kinds
          /\ PublishedEntry("w1", clusterName, r)
    /\ \E r \in OwnProjectRules :
          /\ r.groupName = G3 /\ r.state = "active" /\ "metric" \in r.kinds
          /\ PublishedEntry("w1", <<"p1">>, r)
    /\ \E i \in DOMAIN loc["w1"].config.receivers : loc["w1"].config.receivers[i].name = G4

\* The rule-level nodes of rule r: the nodes that match on its rule id alone.
RuleNodes(config, r) ==
    {n \in Nodes(config) :
        DOMAIN n.match = {"rule_id"} /\ n.match["rule_id"] = r.groupName \o <<"_">> \o r.name}

\* A rule with no timing override.
NoOverrides(r) ==
    r.groupWaitSeconds = 0 /\ r.groupIntervalSeconds = 0 /\ r.repeatIntervalSeconds = 0

\* C4: the rule-level node of a rule without timing overrides has each timing
\* field absent or equal to its group's 10s, never 0s; the node of a rule with
\* overrides carries each override in the matching field (a group-interval
\* override equal to the default may be left out).
C4_TimingInheritance ==
    \A w \in Workers : Assembled(w) =>
        \A r \in store.clusterRules \cup OwnProjectRules :
            \A n \in RuleNodes(loc[w].config, r) :
                IF NoOverrides(r)
                THEN /\ n.groupWait \in {<<>>, <<defaultGroupWait>>}
                     /\ n.groupInterval \in {<<>>, <<defaultGroupInterval>>}
                     /\ n.repeatInterval \in {<<>>, <<defaultRepeatInterval>>}
                ELSE /\ n.groupWait = <<r.groupWaitSeconds>>
                     /\ \/ n.groupInterval = <<r.groupIntervalSeconds>>
                        \/ /\ n.groupInterval = <<>>
                           /\ r.groupIntervalSeconds = defaultGroupInterval
                     /\ n.repeatInterval = <<r.repeatIntervalSeconds>>

\* Whether the document has a Receiver named gid.
HasReceiver(config, gid) ==
    \E i \in DOMAIN config.receivers : config.receivers[i].name = gid

\* C5: every active cluster event rule of a group that has a Receiver has a node
\* matching (alert_type=event, rule_id) under its group's node, with group-interval
\* 1s and group-wait and repeat-interval 10s; the active non-event rules of the
\* group have sibling nodes under the same group node.
C5_EventFastPath ==
    \A w \in Workers : Assembled(w) =>
        \A r \in store.clusterRules :
            (r.state = "active" /\ HasReceiver(loc[w].config, r.groupName)) =>
                \E g \in TopNodes(loc[w].config) :
                    /\ MapGet(g.match, "group_id") = r.groupName
                    /\ "event" \in r.kinds =>
                          \E c \in ChildNodes(g) :
                              /\ c.match = ("alert_type" :> <<"event">>)
                                           @@ ("rule_id" :> r.groupName \o <<"_">> \o r.name)
                              /\ c.groupInterval = <<eventGroupInterval>>
                              /\ c.groupWait = <<defaultGroupWait>>
                              /\ c.repeatInterval = <<defaultRepeatInterval>>
                    /\ r.kinds \cap {"metric", "systemService", "node"} # {} =>
                          RuleNodes(loc[w].config, r) \cap ChildNodes(g) # {}

\* What an invocation leaves untouched when it does nothing.
DidNothing(w) ==
    /\ loc[w].lists = 0 /\ loc[w].published = <<>>
    /\ loc[w].gets = 0 /\ loc[w].updates = 0
    /\ secret = loc[w].secret0 /\ promStore = loc[w].promStore0

\* C6 as stated: an invocation of sync() that returns an error published nothing,
\* neither a rule-group artifact nor the config document.
C6_NoPublishOnError ==
    \A w \in Workers :
        (pc[w] = "done" /\ loc[w].err # "") =>
            /\ loc[w].published = <<>> /\ promStore = loc[w].promStore0
            /\ ~loc[w].wrote /\ secret = loc[w].secret0

\* C6 amended: an invocation of sync() that returns an error did not write the
\* config document (the secret is as it was when the invocation started), though
\* it may have published rule-group artifacts; the secret is written only by the
\* last step of an invocation that returns nil.
C6_NoSecretWriteOnError ==
    \A w \in Workers :
        /\ loc[w].wrote => (pc[w] = "done" /\ loc[w].err = "")
        /\ (pc[w] # "idle" /\ ~loc[w].wrote) => secret = loc[w].secret0
        /\ (pc[w] = "done" /\ loc[w].err # "") => secret = loc[w].secret0

C6_Witness ==
    /\ pc["w1"] = "done" /\ loc["w1"].err = "Update secrets"
    /\ loc["w1"].updates = 1
    /\ Len(loc["w1"].published) = 3
    /\ promStore # loc["w1"].promStore0
    /\ secret = loc["w1"].secret0

C8_PublishOnlyOnChange ==
    \A w \in Workers :
        (pc[w] = "done" /\ loc[w].gets = 1 /\ loc[w].err # "Get secrets") =>
            LET read    == loc[w].configSecret
                differs == read.yaml # loc[w].data
            IN  /\ loc[w].updates = (IF differs THEN 1 ELSE 0)
                /\ ~differs => (secret = read /\ ~loc[w].wrote)
                /\ (differs /\ loc[w].err = "") =>
                      /\ loc[w].wrote
                      /\ DOMAIN secret = DOMAIN read
                      /\ secret.yaml = loc[w].data
                      /\ secret.tmpl = NotificationTmpl
                      /\ secret.other = read.other
                      /\ secret.resourceVersion = read.resourceVersion + 1

C8_Witness ==
    /\ pc["w1"] = "done" /\ loc["w1"].wrote
    /\ loc["w1"].secret0.tmpl # NotificationTmpl
    /\ secret.yaml = loc["w1"].data /\ secret.tmpl = NotificationTmpl
    /\ secret.other = <<"other">>

\* An invocation past both rule-CR publishers.
OperatorsDone(w) == pc[w] \in {"clusterConfig", "projectConfig", "getSecret", "compare"}

\* Whether the invocation of w called SyncPrometheusRule for the scope named scope.
PublishedScope(w, scope) ==
    \E i \in DOMAIN loc[w].published : loc[w].published[i].name = scope

\* C9: SyncPrometheusRule is called for a scope's container if and only if the
\* scope has an active metric rule, and a published container holds rule-group
\* entries only for groups with a metric rule.
C9_MetricPublishGate ==
    \A w \in Workers : OperatorsDone(w) =>
        /\ PublishedScope(w, clusterName) <=>
              \E r \in store.clusterRules : r.state = "active" /\ "metric" \in r.kinds
        /\ \A q \in OwnProjectRules :
              PublishedScope(w, <<q.projectName[3]>>) <=>
                  \E r \in OwnProjectRules :
                      /\ r.projectName = q.projectName
                      /\ r.state = "active" /\ "metric" \in r.kinds
        /\ \A i \in DOMAIN loc[w].published :
              \A j \in DOMAIN loc[w].published[i].groups :
                  loc[w].published[i].groups[j].rules # <<>>

\* The document sync() computes from the backing store as it is now, when the
\* listers return these orders.
DocFor(notifiers, clusterAlertRules, projectAlertRules) ==
    LET cm == ClusterAlertsMap(clusterAlertRules)
        pm == ProjectAlertsMap(projectAlertRules)
        c1 == addClusterAlert2Config(DefaultConfig, cm, SortStrings(DOMAIN cm), notifiers,
                                     store.clusterGroups, {})
        c2 == addProjectAlert2Config(c1.config, pm, SortStrings(DOMAIN pm), notifiers,
                                     store.projectGroups, {})
    IN  Marshal(c2.config)

FreshDocs ==
    {DocFor(no, co, po) : no \in Orders(store.notifiers), co \in Orders(store.clusterRules),
                          po \in Orders(store.projectRules)}

\* Every triggered invocation has returned and none is queued.
Quiescent == started > 0 /\ pending = 0 /\ \A w \in Workers : pc[w] = "idle"

\* C10: once every triggered invocation of sync() has completed and the backing
\* store no longer changes, the published document is the one computed from the
\* final backing-store state.
C10_Converges == Quiescent => secret.yaml \in FreshDocs

\* The rule id sync() derives for a rule.
RuleIDOf(r) == r.groupName \o <<"_">> \o r.name

\* Whether a rule-group artifact holds a rule entry for rule r.
HasEntry(artifact, r) ==
    \E j \in DOMAIN artifact.groups :
        \E k \in DOMAIN artifact.groups[j].rules :
            artifact.groups[j].rules[k].alert = RuleIDOf(r)

\* Whether a rule-group artifact holds a rule-group entry for the group gid.
HasGroupEntry(artifact, gid) ==
    \E j \in DOMAIN artifact.groups : artifact.groups[j].name = gid

\* The groups that rules of the store refer to and whose rules are all inactive.
AllInactiveGroups ==
    {gid \in {r.groupName : r \in store.clusterRules \cup OwnProjectRules} :
        \A r \in store.clusterRules \cup OwnProjectRules :
            r.groupName = gid => r.state = "inactive"}

\* C11: an inactive rule, of whatever payload kind and scope, has no route node
\* in the routing tree sync() computes and no rule entry in any rule-group artifact
\* sync() builds; a group whose rules are all inactive has no Receiver, no route
\* node and no rule-group entry.
C11_InactiveExclusion ==
    \A w \in Workers :
        /\ \A r \in store.clusterRules \cup OwnProjectRules : r.state = "inactive" =>
              /\ loc[w].config # <<>> =>
                    \A n \in Nodes(loc[w].config) : MapGet(n.match, "rule_id") # RuleIDOf(r)
              /\ \A i \in DOMAIN loc[w].published : ~HasEntry(loc[w].published[i], r)
              /\ \A k \in DOMAIN promStore : ~HasEntry(promStore[k], r)
        /\ \A gid \in AllInactiveGroups :
              /\ loc[w].config # <<>> =>
                    /\ ~HasReceiver(loc[w].config, gid)
                    /\ \A n \in Nodes(loc[w].config) : ~NodeOfGroup(n, gid)
              /\ \A i \in DOMAIN loc[w].published : ~HasGroupEntry(loc[w].published[i], gid)

C11_Witness ==
    /\ Assembled("w1")
    /\ \E r \in store.clusterRules :
          /\ r.name = <<"r1">> /\ r.state = "inactive" /\ r.kinds = {"metric"}
    /\ HasReceiver(loc["w1"].config, G1)
    /\ G3 \in AllInactiveGroups /\ GroupResolves(store.projectGroups, G3)
    /\ HasReceiver(loc["w1"].config, G5)
    /\ Len(loc["w1"].published) = 3

\* Whether the lister holds the group that the group id gid names in namespace ns.
GroupExists(groups, ns, gid) ==
    \E g \in groups : g.ns = ns /\ <<":">> \o g.name = SubSeq(gid, Len(gid) - 1, Len(gid))

\* The group ids of a partition whose AlertGroup is not in the lister.
MissingClusterGroups(l) ==
    {gid \in DOMAIN l.cAlertsMap : ~GroupExists(store.clusterGroups, clusterName, gid)}
MissingProjectGroups(l, p) ==
    {gid \in DOMAIN l.pAlertsMap[p] : ~GroupExists(store.projectGroups, p, gid)}

\* The document sync() assembles when the rules of the missing groups are taken
\* out of its partitions.
ConfigWithoutMissing(l) ==
    LET cm == [gid \in DOMAIN l.cAlertsMap \ MissingClusterGroups(l) |-> l.cAlertsMap[gid]]
        pm == [p \in DOMAIN l.pAlertsMap |->
                  [gid \in DOMAIN l.pAlertsMap[p] \ MissingProjectGroups(l, p) |->
                      l.pAlertsMap[p][gid]]]
        c1 == addClusterAlert2Config(DefaultConfig, cm, SortStrings(DOMAIN cm), l.notifiers,
                                     store.clusterGroups, {})
    IN  addProjectAlert2Config(c1.config, pm, SortStrings(DOMAIN pm), l.notifiers,
                               store.projectGroups, {}).config

\* C12: a group lookup that returns not-found does not fail sync(): sync() returns
\* a group-lookup error only when a lookup failed otherwise; the missing group has
\* no Receiver and no route node; the document is the one assembled from the other
\* groups alone; and an invocation none of whose lists, publishes and lookups
\* failed goes on to read the secret.
C12_NotFoundTolerance ==
    \A w \in Workers :
        /\ (pc[w] = "done"
               /\ loc[w].err \in {"get cluster alert group", "get project alert group"})
              => loc[w].failed = "Get group"
        /\ Assembled(w) =>
              /\ \A gid \in MissingClusterGroups(loc[w])
                           \cup UNION {MissingProjectGroups(loc[w], p) :
                                          p \in DOMAIN loc[w].pAlertsMap} :
                    /\ ~HasReceiver(loc[w].config, gid)
                    /\ \A n \in Nodes(loc[w].config) : ~NodeOfGroup(n, gid)
              /\ loc[w].config = ConfigWithoutMissing(loc[w])
        /\ (pc[w] = "done" /\ loc[w].lists = 3 /\ loc[w].failed = "") => loc[w].gets = 1

C12_Witness ==
    /\ Ran("w1")
    /\ G2 \in MissingClusterGroups(loc["w1"])
    /\ <<"p1">> \in DOMAIN loc["w1"].pAlertsMap
    /\ G3 \in MissingProjectGroups(loc["w1"], <<"p1">>)
    /\ HasReceiver(loc["w1"].config, G1) /\ HasReceiver(loc["w1"].config, G4)
    /\ loc["w1"].gets = 1

\* C13: when a listing of notifiers, cluster rules or project rules fails, or a
\* group lookup fails with an error other than not-found, sync() returns an error
\* and neither reads nor writes the secret, which is as it was when the invocation
\* started; after a listing failure the rule-CR store is as it was too.
C13_BackingStoreFailureAborts ==
    \A w \in Workers :
        loc[w].failed \in {"List", "Get group"} =>
            /\ pc[w] = "done" /\ loc[w].err # ""
            /\ loc[w].gets = 0 /\ loc[w].updates = 0 /\ ~loc[w].wrote
            /\ secret = loc[w].secret0
            /\ loc[w].failed = "List" =>
                  (loc[w].published = <<>> /\ promStore = loc[w].promStore0)

C13_Witness ==
    /\ pc["w1"] = "done" /\ loc["w1"].failed = "Get group"
    /\ loc["w1"].err = "get project alert group"
    /\ started = 2 /\ loc["w1"].secret0.tmpl = NotificationTmpl
    /\ secret = loc["w1"].secret0
    /\ Len(loc["w1"].published) > 1

\* The listed notifiers a recipient's reference names.
Named(notifiers, r) ==
    {n \in {notifiers[i] : i \in DOMAIN notifiers} :
        r.notifierName = <<"c1", ":">> \o n.name}

\* The channel a recipient resolves to: the first configured of pagerduty,
\* webhook, slack and smtp of the notifier it names, "" when it names none or the
\* notifier has no channel.
ChannelOf(notifiers, r) ==
    IF r.notifierName = <<>> \/ Named(notifiers, r) = {} THEN ""
    ELSE LET n == CHOOSE n \in Named(notifiers, r) : TRUE
         IN  IF n.pagerduty # <<>> THEN "pagerduty"
             ELSE IF n.webhook # <<>> THEN "webhook"
             ELSE IF n.slack # <<>> THEN "slack"
             ELSE IF n.smtp # <<>> THEN "smtp"
             ELSE ""

\* The target of the config of a recipient that resolves to channel ch.
TargetOf(notifiers, r, ch) ==
    LET n == CHOOSE n \in Named(notifiers, r) : TRUE
    IN  IF r.recipient # <<>> THEN r.recipient
        ELSE IF ch = "pagerduty" THEN n.pagerduty[1].serviceKey
        ELSE IF ch = "webhook" THEN n.webhook[1].url
        ELSE IF ch = "slack" THEN n.slack[1].defaultRecipient
        ELSE n.smtp[1].defaultRecipient

\* The targets of the recipients that resolve to channel ch, in recipient order.
TargetsOf(notifiers, recipients, ch) ==
    LET mine == SelectSeq(recipients, LAMBDA r : ChannelOf(notifiers, r) = ch)
    IN  [i \in DOMAIN mine |-> TargetOf(notifiers, mine[i], ch)]

\* C14: addRecipients appends one channel config per recipient whose non-empty
\* reference is '<clusterName>:<name>' of a listed notifier with a channel, of the
\* first configured kind among pagerduty, webhook, slack and smtp, and nothing for
\* any other recipient; it returns true exactly when it appended a config; the
\* config's target is the recipient's override when that is non-empty and the
\* notifier's default otherwise.
C14_RecipientResolution ==
    \A w \in Workers : pc[w] = "returned" =>
        LET ns == loc[w].notifiers
            rs == loc[w].recipients
            rc == loc[w].receiver
            resolvable == {i \in DOMAIN rs : ChannelOf(ns, rs[i]) # ""}
        IN  /\ rc.name = G1
            /\ Len(rc.pagerdutyConfigs) + Len(rc.webhookConfigs) + Len(rc.slackConfigs)
                   + Len(rc.emailConfigs) = Cardinality(resolvable)
            /\ loc[w].exist <=> resolvable # {}
            /\ [i \in DOMAIN rc.pagerdutyConfigs |-> rc.pagerdutyConfigs[i].serviceKey]
                   = TargetsOf(ns, rs, "pagerduty")
            /\ [i \in DOMAIN rc.webhookConfigs |-> rc.webhookConfigs[i].url]
                   = TargetsOf(ns, rs, "webhook")
            /\ [i \in DOMAIN rc.slackConfigs |-> rc.slackConfigs[i].channel]
                   = TargetsOf(ns, rs, "slack")
            /\ [i \in DOMAIN rc.emailConfigs |-> rc.emailConfigs[i].to]
                   = TargetsOf(ns, rs, "smtp")

C14_Witness ==
    /\ pc["w1"] = "returned" /\ loc["w1"].exist
    /\ loc["w1"].recipients = <<Recipient(<<"c1", ":", "n2">>, <<"ov">>),
                                Recipient(<<"c1", ":", "n3">>, <<>>)>>
    /\ Len(loc["w1"].receiver.pagerdutyConfigs) = 1
    /\ loc["w1"].receiver.pagerdutyConfigs[1].serviceKey = <<"ov">>
    /\ Len(loc["w1"].receiver.webhookConfigs) = 1
    /\ loc["w1"].receiver.webhookConfigs[1].url = <<"hook3">>
    /\ loc["w1"].receiver.slackConfigs = <<>> /\ loc["w1"].receiver.emailConfigs = <<>>

\* C15: when the monitoring stack is not deployed, sync() returns nil whether or
\* not the endpoint would resolve, and lists nothing, publishes no rule-CR and
\* neither reads nor writes the secret: after any number of invocations both
\* stores are as they were at the start.
C15_NotDeployedNoWork ==
    ~isDeploy =>
        /\ \A w \in Workers :
              /\ pc[w] \in {"idle", "done"}
              /\ pc[w] = "done" => (loc[w].err = "" /\ DidNothing(w))
        /\ promStore = <<>>
        /\ secret \in InitialSecrets

C15_Witness ==
    /\ ~isDeploy /\ ~endpointOK
    /\ pc["w1"] = "done" /\ loc["w1"].err = "" /\ started = 2
    /\ \E r \in store.clusterRules : r.state = "active" /\ "metric" \in r.kinds
    /\ promStore = <<>> /\ secret.yaml = <<"initial">>

\* The invocation listed the rules as the backing store holds them now.
ListedCurrent(w) ==
    /\ \E co \in Orders(store.clusterRules) : ClusterAlertsMap(co) = loc[w].cAlertsMap
    /\ \E po \in Orders(store.projectRules) : ProjectAlertsMap(po) = loc[w].pAlertsMap

\* The rules of the scope a rule-CR container is for.
ScopeRules(container) ==
    IF container.name = clusterName THEN store.clusterRules
    ELSE {r \in OwnProjectRules : <<r.projectName[3]>> = container.name}

\* The rule ids of the rule entries of a rule-CR container.
EntryIDs(container) ==
    UNION {{container.groups[j].rules[k].alert : k \in DOMAIN container.groups[j].rules} :
              j \in DOMAIN container.groups}

\* C16: when sync() has returned nil over the backing store as it is now, every
\* rule-CR container in the store holds rule entries exactly for the active metric
\* rules of its scope, so an entry published for a rule that has since become
\* inactive is gone.
C16_NoStaleMetricRules ==
    \A w \in Workers : (Ran(w) /\ ListedCurrent(w)) =>
        \A key \in DOMAIN promStore :
            EntryIDs(promStore[key]) =
                {RuleIDOf(r) : r \in {x \in ScopeRules(promStore[key]) :
                                          x.state = "active" /\ "metric" \in x.kinds}}

\* C17: within one invocation the cluster artifact is published before every
\* project artifact and the project artifacts in ascending order of project key;
\* while sync() publishes rule-CRs it has not read or written the secret, and when
\* it reads the secret every scope with a listed rule has been published; an
\* invocation in which SyncPrometheusRule fails returns that error, does not read
\* or write the secret, and publishes neither the failing scope nor any project
\* after it.
C17_StepOrder ==
    \A w \in Workers :
        LET l   == loc[w]
            pub == l.published
        IN  /\ \A i \in DOMAIN pub : pub[i].name = clusterName => i = 1
            /\ \A i, j \in DOMAIN pub :
                  (i < j /\ pub[i].name # clusterName) => StrLess(pub[i].name, pub[j].name)
            /\ pc[w] \in {"clusterOperator", "projectOperator"} =>
                  (l.gets = 0 /\ l.updates = 0 /\ secret = l.secret0)
            /\ l.gets > 0 =>
                  /\ l.cAlertsKey # <<>> => PublishedScope(w, clusterName)
                  /\ \A p \in DOMAIN l.pAlertsMap : PublishedScope(w, p)
            /\ l.failed = "SyncPrometheusRule" =>
                  /\ pc[w] = "done" /\ l.err = "SyncPrometheusRule"
                  /\ l.gets = 0 /\ l.updates = 0 /\ secret = l.secret0
                  /\ \A i \in DOMAIN l.pAlertsKey :
                        i >= l.pi => ~PublishedScope(w, l.pAlertsKey[i])
                  /\ Len(pub) < Len(l.pAlertsKey) + 1

C17_Witness ==
    /\ pc["w1"] = "done" /\ loc["w1"].failed = "SyncPrometheusRule"
    /\ loc["w1"].pAlertsKey = <<<<"p1">>, <<"p2">>>> /\ loc["w1"].pi = 2
    /\ Len(loc["w1"].published) = 2
    /\ loc["w1"].published[1].name = clusterName
    /\ loc["w1"].published[2].name = <<"p1">>
    /\ loc["w1"].gets = 0 /\ secret = loc["w1"].secret0

\* The names of the Receivers sync() added after those of the default config.
AddedNames(config) ==
    [i \in 1..(Len(config.receivers) - Len(DefaultConfig.receivers)) |->
        config.receivers[i + Len(DefaultConfig.receivers)].name]

\* The project key of the project rules that refer to the group gid.
ProjectKeyOf(gid) ==
    <<(CHOOSE r \in OwnProjectRules : r.groupName = gid).projectName[3]>>

\* Whether the group a comes before the group b: cluster groups before project
\* groups, cluster groups by group id, project groups by project key and then by
\* group id.
ComesBefore(a, b) ==
    LET clusterA == \E r \in store.clusterRules : r.groupName = a
        clusterB == \E r \in store.clusterRules : r.groupName = b
    IN  IF clusterA /\ clusterB THEN StrLess(a, b)
        ELSE IF clusterA \/ clusterB THEN clusterA
        ELSE \/ StrLess(ProjectKeyOf(a), ProjectKeyOf(b))
             \/ ProjectKeyOf(a) = ProjectKeyOf(b) /\ StrLess(a, b)

\* C18: in the computed document the Receivers of cluster groups come before
\* those of project groups, cluster Receivers in ascending order of group id,
\* project Receivers in ascending order of project key and, within a project, of
\* group id; the route nodes under the root are in the same order.
C18_OutputOrdering ==
    \A w \in Workers : Assembled(w) =>
        LET names  == AddedNames(loc[w].config)
            routes == loc[w].config.route.routes
        IN  /\ \A i, j \in DOMAIN names : i < j => ComesBefore(names[i], names[j])
            /\ \A i, j \in DOMAIN routes :
                  i < j => ComesBefore(routes[i].match["group_id"], routes[j].match["group_id"])

C18_Witness ==
    /\ Assembled("w1")
    /\ AddedNames(loc["w1"].config) = <<G1, G2, G3, G5, G4>>
    /\ Len(loc["w1"].config.route.routes) = 5

\* The number of channel configs of a Receiver.
ConfigCount(rc) ==
    Len(rc.pagerdutyConfigs) + Len(rc.webhookConfigs) + Len(rc.slackConfigs)
    + Len(rc.emailConfigs)

\* C19: the route nodes under the root and the Receivers sync() added correspond
\* one to one, in order: the i-th node matches group_id = the name of the i-th
\* added Receiver and has that name as its receiver; every added Receiver has a
\* channel config; no Receiver name occurs twice in the document; no child of a
\* group node has a receiver name.
C19_ReceiverRouteCorrespondence ==
    \A w \in Workers : Assembled(w) =>
        LET config == loc[w].config
            names  == AddedNames(config)
            routes == config.route.routes
        IN  /\ Len(routes) = Len(names)
            /\ \A i \in DOMAIN routes :
                  /\ routes[i].match = ("group_id" :> names[i])
                  /\ routes[i].receiver = names[i]
                  /\ \A k \in DOMAIN routes[i].routes : routes[i].routes[k].receiver = <<>>
            /\ \A i \in DOMAIN config.receivers :
                  /\ ConfigCount(config.receivers[i]) >= 1
                  /\ \A j \in DOMAIN config.receivers :
                        config.receivers[i].name = config.receivers[j].name => i = j

C19_Witness ==
    /\ Assembled("w1")
    /\ AddedNames(loc["w1"].config) = <<G1, G5, G4>>
    /\ \E r \in store.clusterRules : r.groupName = G2 /\ r.state = "active"
    /\ Len(loc["w1"].config.route.routes[1].routes) = 2
    /\ \E k \in 1..2 :
          "alert_type" \in DOMAIN loc["w1"].config.route.routes[1].routes[k].match

\* The number of children of a node that match on the rule id of rule r.
ChildCount(node, r) ==
    Cardinality({k \in DOMAIN node.routes :
                    MapGet(node.routes[k].match, "rule_id") = RuleIDOf(r)})

\* Whether a rule carries exactly one payload kind, one its scope knows.
OnePayload(r) ==
    /\ Cardinality(r.kinds) = 1
    /\ r.kinds \subseteq (IF r \in store.clusterRules THEN ClusterKinds ELSE ProjectKinds)

\* C20: under the node of every group that has a Receiver, each active rule of
\* the group with one payload kind has exactly one child node, which matches on
\* the rule id made of the group id and the rule's name; a rule without payload,
\* an inactive rule and a rule of another group have none there; the node has as
\* many children as the group has active rules with a payload.
C20_OneChildPerRule ==
    \A w \in Workers : Assembled(w) =>
        LET rules == store.clusterRules \cup OwnProjectRules
        IN  \A i \in DOMAIN loc[w].config.route.routes :
                LET node == loc[w].config.route.routes[i]
                    gid  == node.match["group_id"]
                    mine == {r \in rules : r.groupName = gid /\ r.state = "active"
                                              /\ r.kinds # {}}
                IN  /\ \A r \in rules :
                          ChildCount(node, r) = IF r \in mine /\ OnePayload(r) THEN 1 ELSE 0
                    /\ Len(node.routes) = Cardinality(mine)
                    /\ \A k \in DOMAIN node.routes :
                          \E r \in mine :
                              node.routes[k].match \in
                                  {"rule_id" :> (gid \o <<"_">> \o r.name),
                                   ("alert_type" :> <<"event">>)
                                       @@ ("rule_id" :> (gid \o <<"_">> \o r.name))}

C20_Witness ==
    /\ Assembled("w1")
    /\ \E r \in store.clusterRules : r.name = <<"r1">> /\ r.state = "active" /\ r.kinds = {}
    /\ \E r \in store.clusterRules : r.name = <<"r2">> /\ r.state = "active"
    /\ loc["w1"].config.route.routes[1].match["group_id"] = G1
    /\ Len(loc["w1"].config.route.routes[1].routes) = 1
    /\ Len(loc["w1"].config.route.routes) = 5
    /\ Len(loc["w1"].config.route.routes[3].routes) = 1

====
